---------------------------- MODULE Spec2Model ----------------------------
(* A model of package cyclicbuffer: one CyclicBuffer shared by a few       *)
(* goroutines.  Append holds cb.mutex from its first to its last step; the *)
(* other functions take no lock, so every access they make to a field of   *)
(* the buffer is a step of its own and interleaves with the steps of an    *)
(* Append at the granularity of one field access.  An unlocked read that   *)
(* races with a write returns the old or the new value of the field; the   *)
(* properties proved below read the buffer only when no write is racing.   *)
(* src/cyclicbuffer.go holds an older copy of the same code (no AppendSafe,*)
(* no GetData, Append returns nothing); the line numbers in the comments   *)
(* are those of the newer copy.                                            *)
EXTENDS Integers, Sequences, FiniteSets, TLC

(* ------------------------------ bounds -------------------------------- *)
NumProcs == 2      \* goroutines using the buffer
MaxSize == 2       \* largest argument given to New
MaxAppends == 3    \* Append/AppendSafe calls started in one behaviour
MaxOverrun == 1    \* Value() calls made on an iterator with count <= 0
SeqMaxSize == 4    \* largest argument given to New when one goroutine runs alone
SeqMaxAppends == 6 \* Append/AppendSafe calls when one goroutine runs alone

Procs == 1..NumProcs
Sizes == (0 - 1)..MaxSize
SeqSizes == (0 - 1)..SeqMaxSize

\* Goroutine 1 calls every function of the package; the others only append.
\* The reading functions write no field of the buffer, so a second reader
\* would add no behaviour to the first one or to the appenders.
Readers == {1}

\* the zero value of interface{} (nil) that make() fills the slots with
Unset == 0

VARIABLES
  phase,    \* "new" before New, "live" after it, "panic" once a goroutine panicked
  data,     \* cb.data, a function on 0..size-1
  full,     \* cb.full
  size,     \* cb.size
  index,    \* cb.index
  mutex,    \* cb.mutex: 0 when unlocked, else the goroutine that locked it
  pc,       \* per goroutine: the step it is about to take
  op,       \* per goroutine: the exported function it is inside
  safe,     \* per goroutine: Append was called from AppendSafe
  arg,      \* per goroutine: Append's parameter d
  lindex,   \* per goroutine: the local variable index of Append and Get
  lcount,   \* per goroutine: the local variable count of Get
  res,      \* per goroutine: the value being returned (Get's res while it is built)
  it,       \* per goroutine: its Iterator object
  hist,     \* history: the arguments of the Append calls that returned, in order
  pre,      \* history: cb.index when the goroutine's Append took the mutex
  views,    \* history: what Get() run alone would have returned at each instant
            \*          of the goroutine's Get call
  obs,      \* history: the values Empty() run alone would have returned at each
            \*          instant of the goroutine's Empty/NotEmpty call
  out,      \* history: the values the goroutine's iterator returned so far
  ik0,      \* history: Len(hist) when the goroutine's iterator was created
  ref,      \* per goroutine: the array behind the slice it was handed: "own" for
            \*          an array of its own, "cb" for the buffer's cb.data
  snap,     \* history: what Get() run alone would have returned at each instant
            \*          of the CreateIterator call that made the goroutine's iterator
  n0,       \* history: it.count when CreateIterator returned the iterator
  last      \* history: val is what the goroutine's previous call returned, if
            \*          that was a Get and no Append has written the buffer since
            \*          it began (ok); cur: no Append has written the buffer since
            \*          the goroutine's present Get began

cbVars == <<data, full, size, index, mutex>>
locVars == <<op, safe, arg, lindex, lcount, res>>
histVars == <<hist, pre, views, obs, out, ik0>>
auxVars == <<ref, snap, n0, last>>
vars == <<phase, data, full, size, index, mutex, pc, op, safe, arg, lindex,
          lcount, res, it, hist, pre, views, obs, out, ik0, ref, snap, n0,
          last>>

(* ------------------------- the code's arithmetic ---------------------- *)
\* Append: if index >= cb.size      (variant: wraps one slot too late)
M_Wraps_Early(i, sz) == i >= sz - 1
M_Wraps_Late(i, sz) == i > sz
Wraps(i, sz) == i >= sz

\* Get: index++; if index >= cb.size { index = 0 }
Advance(i, sz) == IF i + 1 >= sz THEN 0 ELSE i + 1

\* Get: the start index and the count it reads, by the value it saw in cb.full
\* (variant: always starts at slot 0)
M_Start_Zero(f, ix) == 0
Start(f, ix) == IF f THEN ix ELSE 0
M_Count_Cursor(f, ix, sz) == ix
Count(f, ix, sz) == IF f THEN sz ELSE ix

\* Get: the loop run in one piece, n values of d from slot i on
\* Get: res := make([]interface{}, 0, count) is an array of its own, and the
\* appends of the loop stay within its capacity
M_ResArray_Buffer == "cb"
ResArray == "own"

\* Get works on its own copy of the cursor (var index int ... index = cb.index):
\* the loop's index++ leaves cb.index what it was
M_CursorAfterGet_Advance(ix, sz) == IF ix + 1 >= sz THEN 0 ELSE ix + 1
CursorAfterGet(ix, sz) == ix

RECURSIVE Collect(_, _, _, _)
Collect(d, i, n, sz) ==
  IF n <= 0 THEN <<>> ELSE <<d[i]>> \o Collect(d, Advance(i, sz), n - 1, sz)

\* Get() run with nothing else running
Get(d, f, sz, ix) == Collect(d, Start(f, ix), Count(f, ix, sz), sz)

\* NotEmpty: cb.full || (cb.index > 0)      (variant: forgets cb.index)
M_NotEmpty_FullOnly(f, i) == f
NotEmpty(f, i) == f \/ (i > 0)

\* Empty: !cb.NotEmpty()
Empty(f, i) == ~NotEmpty(f, i)

\* CreateIterator: it.index and it.count, by the value it saw in cb.full
\* (variant: always starts at slot 0)
M_ItStart_Zero(f, ix) == 0
ItStart(f, ix) == IF f THEN ix ELSE 0
M_ItCount_Size(f, ix, sz) == sz
ItCount(f, ix, sz) == IF f THEN sz ELSE ix

\* Iterator.Value: it.index++; if it.index >= it.cb.size { it.index = 0 }
M_ItAdvance_Stay(i, sz) == i
ItAdvance(i, sz) == IF i + 1 >= sz THEN 0 ELSE i + 1

\* Iterator.Next
ItNext(i) == i.count > 0

\* sync.Mutex is not reentrant: Lock blocks while the mutex is locked, by anyone
\* (variant: Lock never blocks)
M_CanLock_Always(t) == TRUE
CanLock(t) == mutex = 0

(* ------------------------------ helpers ------------------------------- *)
NoIt == [live |-> FALSE, index |-> 0, count |-> 0]
NoGet == [ok |-> FALSE, cur |-> FALSE, val |-> <<>>]

\* A goroutine that holds an iterator finishes or drops its traversal before it
\* calls anything else; the Appends that race with a traversal come from the
\* other goroutines.
Idle(t) == phase = "live" /\ pc[t] = "idle" /\ ~it[t].live
Reading(t) == Idle(t) /\ t \in Readers
Iterating(t) == phase = "live" /\ pc[t] = "idle" /\ it[t].live

AppendPcs == {"AppendSafe_Lock", "Append_Lock", "Append_Write", "Append_Wrap",
              "Append_Store", "Append_Return"}
GetPcs == {"Get_full", "Get_then", "Get_else", "Get_loop"}
NotEmptyPcs == {"NotEmpty_full", "NotEmpty_index"}
CreatePcs == {"CreateIterator_full", "CreateIterator_then",
              "CreateIterator_else"}

\* Append and AppendSafe calls started so far
Started == Len(hist) + Cardinality({t \in Procs : pc[t] \in AppendPcs})

\* The code never looks inside a value, so the k-th call appends the value k:
\* any other choice of arguments is a renaming of this one.  At most n calls.
Fresh(n) == IF Started < n THEN {Started + 1} ELSE {}

\* cb.data read as a slice, and what goroutine t reads through the slice it was
\* handed: the buffer's array as it is now, or its own array as Get filled it
Slots == [i \in 1..size |-> data[i - 1]]
Held(t) == IF ref[t] = "cb" THEN Slots ELSE res[t]

\* history bookkeeping of a write that leaves the buffer as (d, f, ix)
ViewsWith(d, f, ix) ==
  [u \in Procs |-> IF pc[u] \in GetPcs
                   THEN views[u] \cup {Get(d, f, size, ix)} ELSE views[u]]
SnapWith(d, f, ix) ==
  [u \in Procs |-> IF pc[u] \in CreatePcs
                   THEN snap[u] \cup {Get(d, f, size, ix)} ELSE snap[u]]
ObsWith(f, ix) ==
  [u \in Procs |-> IF pc[u] \in NotEmptyPcs
                   THEN obs[u] \cup {Empty(f, ix)} ELSE obs[u]]

(* ------------------------------- Init --------------------------------- *)
Init ==
  /\ phase = "new"
  /\ data = <<>>
  /\ full = FALSE
  /\ size = 0
  /\ index = 0
  /\ mutex = 0
  /\ pc = [t \in Procs |-> "idle"]
  /\ op = [t \in Procs |-> "none"]
  /\ safe = [t \in Procs |-> FALSE]
  /\ arg = [t \in Procs |-> Unset]
  /\ lindex = [t \in Procs |-> 0]
  /\ lcount = [t \in Procs |-> 0]
  /\ res = [t \in Procs |-> <<>>]
  /\ it = [t \in Procs |-> NoIt]
  /\ hist = <<>>
  /\ pre = [t \in Procs |-> 0]
  /\ views = [t \in Procs |-> {}]
  /\ obs = [t \in Procs |-> {}]
  /\ out = [t \in Procs |-> <<>>]
  /\ ik0 = [t \in Procs |-> 0]
  /\ ref = [t \in Procs |-> "none"]
  /\ snap = [t \in Procs |-> {}]
  /\ n0 = [t \in Procs |-> 0]
  /\ last = [t \in Procs |-> NoGet]

(* -------------------------------- New --------------------------------- *)
\* New(size): make([]interface{}, size) panics for size < 0; nothing rejects 0
New(s) ==
  /\ phase = "new"
  /\ IF s < 0
     THEN /\ phase' = "panic"
          /\ UNCHANGED cbVars
     ELSE /\ phase' = "live"
          /\ data' = [i \in 0..(s - 1) |-> Unset]
          /\ index' = 0
          /\ full' = FALSE
          /\ size' = s
          /\ mutex' = 0
  /\ UNCHANGED <<pc, locVars, it, histVars>>
  /\ UNCHANGED auxVars

(* ------------------------------- Append ------------------------------- *)
Append_Call(t, d) ==
  /\ Idle(t)
  /\ pc' = [pc EXCEPT ![t] = "Append_Lock"]
  /\ op' = [op EXCEPT ![t] = "Append"]
  /\ arg' = [arg EXCEPT ![t] = d]
  /\ UNCHANGED <<phase, cbVars, safe, lindex, lcount, res, it, histVars>>
  /\ UNCHANGED auxVars

\* AppendSafe: cb.mutex.Lock(); defer cb.mutex.Unlock(); return cb.Append(d)
AppendSafe_Call(t, d) ==
  /\ Idle(t)
  /\ pc' = [pc EXCEPT ![t] = "AppendSafe_Lock"]
  /\ op' = [op EXCEPT ![t] = "AppendSafe"]
  /\ arg' = [arg EXCEPT ![t] = d]
  /\ UNCHANGED <<phase, cbVars, safe, lindex, lcount, res, it, histVars>>
  /\ UNCHANGED auxVars

\* AppendSafe: cb.mutex.Lock(), then the call of cb.Append
AppendSafe_Lock(t) ==
  /\ phase = "live" /\ pc[t] = "AppendSafe_Lock"
  /\ CanLock(t)
  /\ mutex' = t
  /\ safe' = [safe EXCEPT ![t] = TRUE]
  /\ pc' = [pc EXCEPT ![t] = "Append_Lock"]
  /\ UNCHANGED <<phase, data, full, size, index, op, arg, lindex, lcount, res,
                 it, histVars>>
  /\ UNCHANGED auxVars

\* Append: cb.mutex.Lock()
Append_Lock(t) ==
  /\ phase = "live" /\ pc[t] = "Append_Lock"
  /\ CanLock(t)
  /\ mutex' = t
  /\ pre' = [pre EXCEPT ![t] = index]
  /\ pc' = [pc EXCEPT ![t] = "Append_Write"]
  /\ UNCHANGED <<phase, data, full, size, index, locVars, it, hist, views, obs,
                 out, ik0>>
  /\ UNCHANGED auxVars

\* var index = cb.index; cb.data[index] = d; index++; if index >= cb.size
\* (an index outside the slice panics: the deferred Unlock runs, the program dies)
Append_Write(t) ==
  /\ phase = "live" /\ pc[t] = "Append_Write"
  /\ IF index \in DOMAIN data
     THEN /\ data' = [data EXCEPT ![index] = arg[t]]
          /\ lindex' = [lindex EXCEPT ![t] = index + 1]
          /\ views' = ViewsWith([data EXCEPT ![index] = arg[t]], full, index)
          /\ snap' = SnapWith([data EXCEPT ![index] = arg[t]], full, index)
          /\ last' = [u \in Procs |-> NoGet]
          /\ pc' = [pc EXCEPT ![t] = IF Wraps(index + 1, size)
                                     THEN "Append_Wrap" ELSE "Append_Store"]
          /\ UNCHANGED <<phase, mutex>>
     ELSE /\ phase' = "panic"
          /\ mutex' = 0
          /\ UNCHANGED <<data, lindex, views, snap, last, pc>>
  /\ UNCHANGED <<full, size, index, op, safe, arg, lcount, res, it, hist, pre,
                 obs, out, ik0, ref, n0>>

\* index = 0; cb.full = true
Append_Wrap(t) ==
  /\ phase = "live" /\ pc[t] = "Append_Wrap"
  /\ lindex' = [lindex EXCEPT ![t] = 0]
  /\ full' = TRUE
  /\ views' = ViewsWith(data, TRUE, index)
  /\ snap' = SnapWith(data, TRUE, index)
  /\ last' = [u \in Procs |-> NoGet]
  /\ obs' = ObsWith(TRUE, index)
  /\ pc' = [pc EXCEPT ![t] = "Append_Store"]
  /\ UNCHANGED <<phase, data, size, index, mutex, op, safe, arg, lcount, res,
                 it, hist, pre, out, ik0, ref, n0>>

\* cb.index = index
Append_Store(t) ==
  /\ phase = "live" /\ pc[t] = "Append_Store"
  /\ index' = lindex[t]
  /\ views' = ViewsWith(data, full, lindex[t])
  /\ snap' = SnapWith(data, full, lindex[t])
  /\ last' = [u \in Procs |-> NoGet]
  /\ obs' = ObsWith(full, lindex[t])
  /\ pc' = [pc EXCEPT ![t] = "Append_Return"]
  /\ UNCHANGED <<phase, data, full, size, mutex, locVars, it, hist, pre, out,
                 ik0, ref, n0>>

\* return index, running the deferred cb.mutex.Unlock(); back in AppendSafe the
\* second deferred Unlock finds the mutex unlocked, which is a fatal error
Append_Return(t) ==
  /\ phase = "live" /\ pc[t] = "Append_Return"
  /\ mutex' = 0
  /\ res' = [res EXCEPT ![t] = lindex[t]]
  /\ hist' = Append(hist, arg[t])
  /\ IF safe[t]
     THEN phase' = "panic" /\ UNCHANGED pc
     ELSE phase' = phase /\ pc' = [pc EXCEPT ![t] = "done"]
  /\ UNCHANGED <<data, full, size, index, op, safe, arg, lindex, lcount, it,
                 pre, views, obs, out, ik0>>
  /\ UNCHANGED auxVars

\* the caller takes the result; the goroutine is free for its next call
Return(t) ==
  /\ phase = "live" /\ pc[t] = "done"
  /\ pc' = [pc EXCEPT ![t] = "idle"]
  /\ op' = [op EXCEPT ![t] = "none"]
  /\ safe' = [safe EXCEPT ![t] = FALSE]
  /\ arg' = [arg EXCEPT ![t] = Unset]
  /\ lindex' = [lindex EXCEPT ![t] = 0]
  /\ lcount' = [lcount EXCEPT ![t] = 0]
  /\ res' = [res EXCEPT ![t] = <<>>]
  /\ pre' = [pre EXCEPT ![t] = 0]
  /\ views' = [views EXCEPT ![t] = {}]
  /\ obs' = [obs EXCEPT ![t] = {}]
  /\ ref' = [ref EXCEPT ![t] = "none"]
  /\ last' = [last EXCEPT ![t] =
                IF op[t] = "Get" /\ last[t].cur
                THEN [ok |-> TRUE, cur |-> FALSE, val |-> res[t]] ELSE NoGet]
  /\ UNCHANGED <<phase, cbVars, it, hist, out, ik0, snap, n0>>

(* --------------------------- Empty / NotEmpty ------------------------- *)
\* Empty() is !cb.NotEmpty(); NotEmpty() evaluates cb.full || (cb.index > 0)
\* without the mutex: it reads cb.full, and cb.index only when full was false
NotEmpty_Call(t, o) ==
  /\ Reading(t)
  /\ pc' = [pc EXCEPT ![t] = "NotEmpty_full"]
  /\ op' = [op EXCEPT ![t] = o]
  /\ obs' = [obs EXCEPT ![t] = {Empty(full, index)}]
  /\ UNCHANGED <<phase, cbVars, safe, arg, lindex, lcount, res, it, hist, pre,
                 views, out, ik0>>
  /\ UNCHANGED auxVars

\* what the caller of o gets when NotEmpty() evaluates to b
Answer(o, b) == IF o = "Empty" THEN ~b ELSE b

NotEmpty_full(t) ==
  /\ phase = "live" /\ pc[t] = "NotEmpty_full"
  /\ IF full
     THEN /\ res' = [res EXCEPT ![t] = Answer(op[t], NotEmpty(TRUE, 0))]
          /\ pc' = [pc EXCEPT ![t] = "done"]
     ELSE /\ res' = res
          /\ pc' = [pc EXCEPT ![t] = "NotEmpty_index"]
  /\ UNCHANGED <<phase, cbVars, op, safe, arg, lindex, lcount, it, histVars>>
  /\ UNCHANGED auxVars

NotEmpty_index(t) ==
  /\ phase = "live" /\ pc[t] = "NotEmpty_index"
  /\ res' = [res EXCEPT ![t] = Answer(op[t], NotEmpty(FALSE, index))]
  /\ pc' = [pc EXCEPT ![t] = "done"]
  /\ UNCHANGED <<phase, cbVars, op, safe, arg, lindex, lcount, it, histVars>>
  /\ UNCHANGED auxVars

(* --------------------------------- Get -------------------------------- *)
Get_Call(t) ==
  /\ Reading(t)
  /\ pc' = [pc EXCEPT ![t] = "Get_full"]
  /\ op' = [op EXCEPT ![t] = "Get"]
  /\ views' = [views EXCEPT ![t] = {Get(data, full, size, index)}]
  /\ last' = [last EXCEPT ![t].cur = TRUE]
  /\ UNCHANGED <<phase, cbVars, safe, arg, lindex, lcount, res, it, hist, pre,
                 obs, out, ik0, ref, snap, n0>>

\* if cb.full
Get_full(t) ==
  /\ phase = "live" /\ pc[t] = "Get_full"
  /\ pc' = [pc EXCEPT ![t] = IF full THEN "Get_then" ELSE "Get_else"]
  /\ UNCHANGED <<phase, cbVars, locVars, it, histVars>>
  /\ UNCHANGED auxVars

\* for i := 0; i < count; i++ : the loop is left when count values are in res
LoopPc(n) == IF n > 0 THEN "Get_loop" ELSE "done"

\* index = cb.index; count = cb.size    (full was true)
\* index = 0; count = cb.index          (full was false)
\* res := make([]interface{}, 0, count)
Get_index(t) ==
  /\ phase = "live" /\ pc[t] \in {"Get_then", "Get_else"}
  /\ lindex' = [lindex EXCEPT ![t] = Start(pc[t] = "Get_then", index)]
  /\ lcount' = [lcount EXCEPT ![t] = Count(pc[t] = "Get_then", index, size)]
  /\ res' = [res EXCEPT ![t] = <<>>]
  /\ ref' = [ref EXCEPT ![t] = ResArray]
  /\ pc' = [pc EXCEPT ![t] = LoopPc(Count(pc[t] = "Get_then", index, size))]
  /\ UNCHANGED <<phase, cbVars, op, safe, arg, it, histVars, snap, n0, last>>

\* d := cb.data[index]; res = append(res, d); index++; wrap; i++
\* (index is the local of Get: cb.index is CursorAfterGet of what it was)
Get_loop(t) ==
  /\ phase = "live" /\ pc[t] = "Get_loop"
  /\ IF lindex[t] \in DOMAIN data
     THEN /\ res' = [res EXCEPT ![t] = Append(res[t], data[lindex[t]])]
          /\ lindex' = [lindex EXCEPT ![t] = Advance(lindex[t], size)]
          /\ index' = CursorAfterGet(index, size)
          /\ pc' = [pc EXCEPT ![t] = LoopPc(lcount[t] - Len(res[t]) - 1)]
          /\ phase' = phase
     ELSE /\ phase' = "panic"
          /\ UNCHANGED <<res, lindex, index, pc>>
  /\ UNCHANGED <<data, full, size, mutex, op, safe, arg, lcount, it, histVars>>
  /\ UNCHANGED auxVars

(* ------------------------------- GetData ------------------------------ *)
\* return cb.data: the slice handed out is the buffer's own array, read without
\* the mutex (cb.data is never assigned after New).  res[t] keeps what the
\* array held at the return.
GetData(t) ==
  /\ Reading(t)
  /\ op' = [op EXCEPT ![t] = "GetData"]
  /\ res' = [res EXCEPT ![t] = Slots]
  /\ ref' = [ref EXCEPT ![t] = "cb"]
  /\ pc' = [pc EXCEPT ![t] = "done"]
  /\ UNCHANGED <<phase, cbVars, safe, arg, lindex, lcount, it, histVars, snap,
                 n0, last>>

(* ------------------------------ Iterator ------------------------------ *)
CreateIterator_Call(t) ==
  /\ Reading(t)
  /\ pc' = [pc EXCEPT ![t] = "CreateIterator_full"]
  /\ op' = [op EXCEPT ![t] = "CreateIterator"]
  /\ ik0' = [ik0 EXCEPT ![t] = Len(hist)]
  /\ snap' = [snap EXCEPT ![t] = {Get(data, full, size, index)}]
  /\ UNCHANGED <<phase, cbVars, safe, arg, lindex, lcount, res, it, hist, pre,
                 views, obs, out, ref, n0, last>>

\* if cb.full
CreateIterator_full(t) ==
  /\ phase = "live" /\ pc[t] = "CreateIterator_full"
  /\ pc' = [pc EXCEPT ![t] = IF full THEN "CreateIterator_then"
                             ELSE "CreateIterator_else"]
  /\ UNCHANGED <<phase, cbVars, locVars, it, histVars>>
  /\ UNCHANGED auxVars

\* it.index = cb.index; it.count = cb.size   (full was true)
\* it.index = 0; it.count = cb.index         (full was false)
CreateIterator_index(t) ==
  /\ phase = "live" /\ pc[t] \in {"CreateIterator_then", "CreateIterator_else"}
  /\ it' = [it EXCEPT ![t] =
              [live |-> TRUE,
               index |-> ItStart(pc[t] = "CreateIterator_then", index),
               count |-> ItCount(pc[t] = "CreateIterator_then", index, size)]]
  /\ n0' = [n0 EXCEPT ![t] = ItCount(pc[t] = "CreateIterator_then", index, size)]
  /\ pc' = [pc EXCEPT ![t] = "done"]
  /\ UNCHANGED <<phase, cbVars, locVars, histVars, ref, snap, last>>

\* the caller's loop test
Next_Call(t) ==
  /\ Iterating(t)
  /\ op' = [op EXCEPT ![t] = "Next"]
  /\ res' = [res EXCEPT ![t] = ItNext(it[t])]
  /\ pc' = [pc EXCEPT ![t] = "done"]
  /\ UNCHANGED <<phase, cbVars, safe, arg, lindex, lcount, it, histVars>>
  /\ UNCHANGED auxVars

\* Iterator.Value: value := it.cb.data[it.index]; it.index++; wrap; it.count--
\* Nothing in it looks at it.count; only an index outside the slice panics.
Value_Call(t) ==
  /\ Iterating(t)
  /\ it[t].count > 0 - MaxOverrun
  /\ op' = [op EXCEPT ![t] = "Value"]
  /\ IF it[t].index \in DOMAIN data
     THEN /\ res' = [res EXCEPT ![t] = data[it[t].index]]
          /\ it' = [it EXCEPT ![t] = [live |-> TRUE,
                                      index |-> ItAdvance(it[t].index, size),
                                      count |-> it[t].count - 1]]
          /\ out' = [out EXCEPT ![t] = Append(out[t], data[it[t].index])]
          /\ pc' = [pc EXCEPT ![t] = "done"]
          /\ phase' = phase
     ELSE /\ phase' = "panic"
          /\ UNCHANGED <<res, it, out, pc>>
  /\ UNCHANGED <<cbVars, safe, arg, lindex, lcount, hist, pre, views, obs, ik0>>
  /\ UNCHANGED auxVars

\* the caller lets go of its iterator
Drop(t) ==
  /\ Iterating(t)
  /\ it' = [it EXCEPT ![t] = NoIt]
  /\ out' = [out EXCEPT ![t] = <<>>]
  /\ ik0' = [ik0 EXCEPT ![t] = 0]
  /\ snap' = [snap EXCEPT ![t] = {}]
  /\ n0' = [n0 EXCEPT ![t] = 0]
  /\ UNCHANGED <<phase, cbVars, pc, locVars, hist, pre, views, obs, ref, last>>

(* -------------------------------- Next -------------------------------- *)
\* one step of goroutine t, which starts at most n appends
Step(t, n) ==
  \/ \E d \in Fresh(n) : Append_Call(t, d)
  \/ \E d \in Fresh(n) : AppendSafe_Call(t, d)
  \/ AppendSafe_Lock(t)
  \/ Append_Lock(t)
  \/ Append_Write(t)
  \/ Append_Wrap(t)
  \/ Append_Store(t)
  \/ Append_Return(t)
  \/ \E o \in {"Empty", "NotEmpty"} : NotEmpty_Call(t, o)
  \/ NotEmpty_full(t)
  \/ NotEmpty_index(t)
  \/ Get_Call(t)
  \/ Get_full(t)
  \/ Get_index(t)
  \/ Get_loop(t)
  \/ GetData(t)
  \/ CreateIterator_Call(t)
  \/ CreateIterator_full(t)
  \/ CreateIterator_index(t)
  \/ Next_Call(t)
  \/ Value_Call(t)
  \/ Drop(t)
  \/ Return(t)

Next ==
  \/ \E s \in Sizes : New(s)
  \/ \E t \in Procs : Step(t, MaxAppends)

\* the goroutines run concurrently
Spec == Init /\ [][Next]_vars

SeqNext ==
  \/ \E s \in SeqSizes : New(s)
  \/ \E t \in Readers : Step(t, SeqMaxAppends)

\* goroutine 1 runs alone: every call returns before the next one starts
SeqSpec == Init /\ [][SeqNext]_vars

(* ------------------------------ properties ---------------------------- *)
\* the last n elements of s
LastN(s, n) == SubSeq(s, Len(s) - n + 1, Len(s))

\* some Append or AppendSafe call has not returned
Appending == \E t \in Procs : pc[t] \in AppendPcs

\* some Append has written the buffer and not returned
Writing == \E t \in Procs : pc[t] \in {"Append_Wrap", "Append_Store", "Append_Return"}

\* goroutine t has just been handed the result of o
Returned(t, o) == phase = "live" /\ pc[t] = "done" /\ op[t] = o

\* C1: with one goroutine, a Get that follows n >= c returned Appends on a
\* buffer of capacity c >= 1 finds full set and returns the last c appended
\* values, oldest first.
C1_GetReturnsLastC ==
  \A t \in Procs :
    (Returned(t, "Get") /\ size >= 1 /\ Len(hist) >= size)
      => (full /\ res[t] = LastN(hist, size))

\* C1 witness: capacity 3, appends 1..5, Get returned <<3, 4, 5>>
C1_Witness ==
  \E t \in Procs :
    /\ Returned(t, "Get") /\ size = 3
    /\ hist = <<1, 2, 3, 4, 5>> /\ res[t] = <<3, 4, 5>>

\* C2: with one goroutine and n < c returned Appends: Empty() is true exactly
\* when n = 0 (and NotEmpty() is its negation), the logical count
\* full ? size : index is n, and Get returns the n values in append order.
C2_BelowCapacity ==
  (phase = "live" /\ ~Appending /\ Len(hist) < size) =>
    /\ Count(full, index, size) = Len(hist)
    /\ \A t \in Procs :
         /\ Returned(t, "Empty") => (res[t] = (Len(hist) = 0))
         /\ Returned(t, "NotEmpty") => (res[t] = (Len(hist) # 0))
         /\ Returned(t, "Get") => (res[t] = hist)

\* C2 witness: Empty() returned false with 2 values in a buffer of capacity 4
C2_Witness ==
  \E t \in Procs :
    /\ Returned(t, "Empty") /\ ~Appending
    /\ size = 4 /\ Len(hist) = 2 /\ res[t] = FALSE

\* C3: on a buffer of capacity >= 1, no goroutine waits for the buffer's lock
\* while it holds that lock itself (such a call can never return).
C3_LockNotReacquiredByHolder ==
  \A t \in Procs :
    (size >= 1 /\ pc[t] \in {"Append_Lock", "AppendSafe_Lock"}) => mutex # t

\* C4: the sequence a Get returns is what Get run alone would have returned
\* at some single instant between Get's call and its return.
C4_GetPointInTime ==
  \A t \in Procs : Returned(t, "Get") => res[t] \in views[t]

\* C5: once every started Append has returned and at least c of them have,
\* the buffer has exactly c slots and each holds an appended value.
C5_SlotsHoldAppendedValues ==
  (phase = "live" /\ size >= 1 /\ ~Appending /\ Len(hist) >= size) =>
    /\ DOMAIN data = 0..(size - 1)
    /\ \A i \in DOMAIN data : \E k \in 1..Len(hist) : data[i] = hist[k]

\* C5 witness: two goroutines raced for the lock (the second call won), three
\* Appends returned on a buffer of capacity 2
C5_Witness ==
  /\ phase = "live" /\ size = 2 /\ ~Appending
  /\ Len(hist) = 3 /\ hist[1] = 2 /\ hist[2] = 1

\* C6: the value Empty() (NotEmpty()) returns is the value (the negation) of
\* full = false /\ index = 0 at some single instant between call and return.
C6_EmptyPointInTime ==
  \A t \in Procs :
    /\ Returned(t, "Empty") => res[t] \in obs[t]
    /\ Returned(t, "NotEmpty") => (~res[t]) \in obs[t]

\* C7: an Append that returns, returns the cursor it leaves behind: the value is
\* (cursor when it took the lock + 1) mod capacity, is cb.index when it
\* returns, and lies in 0..capacity-1.
C7_AppendReturnsNextIndex ==
  [][\A t \in Procs :
       (pc[t] = "Append_Return" /\ pc'[t] = "done") =>
         /\ res'[t] = (pre[t] + 1) % size
         /\ res'[t] = index'
         /\ res'[t] \in 0..(size - 1)]_vars

\* C7 witness: an Append that wrapped returned 0 on a buffer of capacity 2
C7_Witness ==
  \E t \in Procs :
    Returned(t, "Append") /\ size = 2 /\ pre[t] = 1 /\ res[t] = 0

\* C8: no buffer with capacity <= 0 exists.
C8_NoBufferWithoutSlots == phase = "live" => size >= 1

\* C9: a Value() call on an iterator with count <= 0 fails: it returns no
\* value and leaves the iterator as it was.
C9_ValuePastEndFails ==
  [][\A t \in Procs :
       (Iterating(t) /\ it[t].count <= 0 /\ op'[t] = "Value") =>
         (phase' = "panic" /\ it'[t] = it[t])]_vars

\* C10: when no Append ran since the iterator's creation began, the values
\* collected by a traversal that reached count = 0 are what Get run alone
\* returns on the buffer.
C10_IteratorEqualsGet ==
  \A t \in Procs :
    (Iterating(t) /\ it[t].count = 0 /\ ik0[t] = Len(hist) /\ ~Writing)
      => out[t] = Get(data, full, size, index)

\* C10 witness: a finished traversal of a wrapped buffer whose oldest entry is
\* not in slot 0
C10_Witness ==
  \E t \in Procs :
    /\ Iterating(t) /\ it[t].count = 0 /\ ik0[t] = Len(hist) /\ ~Writing
    /\ size = 2 /\ full /\ index = 1 /\ Len(out[t]) = 2

\* C11 as stated: a traversal that ran to its end under Next() returned the
\* entries the buffer held when the iterator was created, oldest first, whatever
\* was appended afterwards.  (snap[t] has one element: the buffer held one
\* content during the whole CreateIterator call.)
C11_IteratorYieldsCreationContent ==
  \A t \in Procs :
    (Iterating(t) /\ it[t].count = 0 /\ Cardinality(snap[t]) = 1)
      => out[t] \in snap[t]

\* C11, amended: as long as no Append has written the buffer since the iterator
\* was created, the values returned so far are the first entries, oldest first,
\* of the content the buffer held at the creation, and the values returned plus
\* the values still to come are as many as that content has.
C11_IteratorYieldsCreationContentUnraced ==
  \A t \in Procs :
    (Iterating(t) /\ it[t].count >= 0 /\ ik0[t] = Len(hist) /\ ~Appending)
      => \A c \in snap[t] :
           /\ Len(out[t]) + it[t].count = Len(c)
           /\ out[t] = SubSeq(c, 1, Len(out[t]))
C11_Witness ==
  \E t \in Procs :
    /\ Iterating(t) /\ it[t].count = 0 /\ ik0[t] = Len(hist) /\ ~Appending
    /\ size = 2 /\ Len(hist) = 3 /\ snap[t] = {out[t]} /\ Len(out[t]) = 2

\* C12: a Get that directly follows another Get of the same caller, with no
\* Append writing the buffer from the start of the first to the end of the
\* second, returns the sequence the first one returned.
C12_GetTwiceEqual ==
  \A t \in Procs :
    (Returned(t, "Get") /\ last[t].ok) => res[t] = last[t].val
C12_Witness ==
  \E t \in Procs :
    /\ Returned(t, "Get") /\ last[t].ok
    /\ size = 2 /\ full /\ index = 1 /\ Len(res[t]) = 2

\* C13: while a caller holds what Get returned, no step of the program changes
\* the length or an element of it; while a caller holds what GetData returned,
\* what it reads through it is the buffer's array as it is now, later Appends
\* included.
C13_GetOwnArrayGetDataAlias ==
  [][\A t \in Procs :
       /\ (Returned(t, "Get") /\ pc'[t] = "done")
            => Held(t)' = Held(t)
       /\ (Returned(t, "GetData") /\ pc'[t] = "done")
            => Held(t)' = Slots']_vars
C13_Witness ==
  \E t \in Procs :
    /\ Returned(t, "GetData") /\ size = 2
    /\ res[t] = <<1, Unset>> /\ Held(t) = <<1, 2>>

\* the values of the slots of d, and the arguments of the Appends that have
\* stored their cursor
Values(d) == {d[i] : i \in DOMAIN d}
Stored == {hist[k] : k \in 1..Len(hist)}
              \cup {arg[t] : t \in {u \in Procs : pc[u] = "Append_Return"}}
Min(a, b) == IF a < b THEN a ELSE b

\* C14: when k Appends have returned and no Append or AppendSafe call is in
\* progress (capacity >= 1, which "k mod capacity" presupposes), cb.index is
\* k mod capacity and cb.full is (k >= capacity), whatever the interleaving; no
\* Append is lost: the slots hold min(k, capacity) different appended values.
C14_AppendsAtomic ==
  (phase = "live" /\ size >= 1 /\ ~Appending)
    => /\ index = Len(hist) % size
       /\ full = (Len(hist) >= size)
       /\ Cardinality(Values(data) \cap Stored) = Min(Len(hist), size)
C14_Witness ==
  /\ phase = "live" /\ ~Appending /\ size = 2
  /\ hist = <<2, 1, 3>> /\ index = 1 /\ full

\* C15: in every state of a buffer of capacity >= 1, the states inside an Append
\* included, 0 <= cb.index < capacity.
C15_CursorInRange ==
  (phase = "live" /\ size >= 1) => index \in 0..(size - 1)
C15_Witness ==
  \E t \in Procs :
    /\ phase = "live" /\ pc[t] = "Append_Wrap"
    /\ size = 2 /\ lindex[t] = size /\ index = 1

\* C16: in every state in which no Append is between its slot write and its
\* cursor store: if full, every slot holds an appended value; if not full, the
\* slots below cb.index hold appended values and the slots from cb.index on are
\* unset.
C16_SlotOccupancy ==
  (phase = "live" /\ \A t \in Procs : pc[t] \notin {"Append_Wrap", "Append_Store"})
    => \A i \in DOMAIN data :
         IF full \/ i < index THEN data[i] \in Stored ELSE data[i] = Unset
C16_Witness ==
  /\ phase = "live" /\ \A t \in Procs : pc[t] = "idle"
  /\ size = 2 /\ ~full /\ index = 1 /\ data[0] = 1 /\ data[1] = Unset

\* C17: the capacity never changes; a slot changes only by an Append writing
\* its argument into the slot at the cursor it read under the lock; cb.index
\* changes only by that Append storing (that cursor + 1) mod capacity; cb.full
\* changes only to true, by an Append whose new cursor wraps to 0, and is true
\* whenever the cursor stored is 0.  On a full buffer the slot written is the
\* one of the oldest entry, and storing the cursor moves the new value from the
\* front of the content to its end: the other entries keep values and order.
C17_AppendEffect ==
  [][phase = "live" =>
       /\ size' = size /\ DOMAIN data' = DOMAIN data
       /\ \A i \in DOMAIN data :
            data'[i] # data[i]
              => \E t \in Procs : /\ pc[t] = "Append_Write" /\ pc'[t] # pc[t]
                                  /\ i = pre[t] /\ data'[i] = arg[t]
       /\ index' # index
            => \E t \in Procs : /\ pc[t] = "Append_Store" /\ index = pre[t]
                                /\ index' = (pre[t] + 1) % size
                                /\ data[pre[t]] = arg[t]
                                /\ index' = 0 => full'
       /\ full' # full
            => \E t \in Procs : /\ pc[t] = "Append_Wrap" /\ full'
                                /\ (pre[t] + 1) % size = 0
       /\ \A t \in Procs :
            (full /\ pc[t] = "Append_Write" /\ pc'[t] # pc[t])
              => Get(data', full', size', index')
                   = <<arg[t]>> \o Tail(Get(data, full, size, index))
       /\ \A t \in Procs :
            (full /\ pc[t] = "Append_Store" /\ pc'[t] # pc[t])
              => Get(data', full', size', index')
                   = Tail(Get(data, full, size, index)) \o <<arg[t]>>]_vars
C17_Witness ==
  \E t \in Procs :
    /\ Returned(t, "Append") /\ size = 2 /\ hist = <<1, 2, 3>>
    /\ data[0] = 3 /\ data[1] = 2 /\ index = 1 /\ full /\ pre[t] = 0

\* goroutine t takes a step of one of the reading operations
ReadOps == {"Empty", "NotEmpty", "Get", "GetData", "CreateIterator", "Next",
            "Value"}
ReadStep(t) ==
  /\ op'[t] \in ReadOps
  /\ pc'[t] # pc[t] \/ op'[t] # op[t] \/ res'[t] # res[t]

\* C18: CreateIterator returns (start, count) = (cb.index, capacity) when it
\* read full as true and (0, cb.index) when it read full as false, which is the
\* start and count of the content when no Append wrote during the call; a
\* Value() called with remaining > 0 takes 1 from remaining and moves
\* readCursor by 1 modulo the capacity; so in a traversal under Next()
\* 0 <= readCursor < capacity (capacity >= 1), 0 <= remaining <= capacity, the
\* values returned and remaining add up to the count captured, and Next() is
\* false exactly when as many values were returned, whatever is appended
\* meanwhile.
C18_TraversalLength ==
  /\ [](\A t \in Procs :
          (phase = "live" /\ it[t].live /\ it[t].count >= 0)
            => /\ size >= 1 => it[t].index \in 0..(size - 1)
               /\ it[t].count <= size
               /\ Len(out[t]) + it[t].count = n0[t]
               /\ ItNext(it[t]) <=> Len(out[t]) < n0[t])
  /\ [](\A t \in Procs :
          (Returned(t, "CreateIterator") /\ ik0[t] = Len(hist) /\ ~Appending)
            => /\ it[t].index = Start(full, index)
               /\ it[t].count = Count(full, index, size))
  /\ [][\A t \in Procs :
          /\ (pc[t] = "CreateIterator_then" /\ pc'[t] = "done")
               => (it'[t].index = index /\ it'[t].count = size)
          /\ (pc[t] = "CreateIterator_else" /\ pc'[t] = "done")
               => (it'[t].index = 0 /\ it'[t].count = index)
          /\ (Iterating(t) /\ it[t].count > 0 /\ op'[t] = "Value")
               => /\ it'[t].count = it[t].count - 1
                  /\ it'[t].index = (it[t].index + 1) % size
                  /\ Len(out'[t]) = Len(out[t]) + 1]_vars
C18_Witness ==
  \E t \in Procs :
    /\ Iterating(t) /\ it[t].count = 0 /\ size = 2
    /\ n0[t] = 2 /\ Len(out[t]) = 2 /\ Len(hist) > ik0[t]

\* C19: no step of Empty, NotEmpty, Get, GetData, CreateIterator, Next or
\* Value changes a slot, cb.index, cb.full or the capacity; Next() changes no
\* iterator, and only CreateIterator and Value change one, the caller's own.
C19_ReadsDoNotMutate ==
  [][\A t \in Procs :
       ReadStep(t)
         => /\ <<data, index, full, size>>' = <<data, index, full, size>>
            /\ op'[t] \notin {"CreateIterator", "Value"} => it' = it
            /\ \A u \in Procs \ {t} : it'[u] = it[u]]_vars
C19_Witness ==
  \E t \in Procs :
    /\ Returned(t, "Value") /\ res[t] = 1 /\ it[t].index = 1 /\ it[t].count = 1
    /\ size = 2 /\ full /\ index = 0 /\ data[0] = 1 /\ data[1] = 2

\* C20: cb.full never goes back to false; the logical count
\* (full ? capacity : index) never decreases from one state to the next, the
\* states inside an Append included, and never exceeds the capacity; a buffer
\* that is not empty stays so, and it is not empty once an Append has returned.
C20_Monotonic ==
  /\ [][phase = "live" =>
          /\ full => full'
          /\ Count(full', index', size') >= Count(full, index, size)
          /\ Count(full', index', size') <= size'
          /\ NotEmpty(full, index) => NotEmpty(full', index')]_vars
  /\ []((phase = "live" /\ Len(hist) >= 1) => NotEmpty(full, index))
C20_Witness ==
  \E t \in Procs :
    /\ Returned(t, "NotEmpty") /\ res[t] = TRUE
    /\ size = 2 /\ full /\ index = 1 /\ Len(hist) = 3

=============================================================================
